---- MODULE Spec2Model ----
(***************************************************************************)
(* A model of `release` (main.go): the semantic version parser, bump and   *)
(* renderer, and the release pipeline that collects notes, resolves the    *)
(* next version, assembles the tag message, tags and archives.             *)
(*                                                                         *)
(* Strings are sequences of one-character strings, so that splitting,      *)
(* integer parsing and formatting are computed character by character as   *)
(* the Go code computes them.                                              *)
(***************************************************************************)
EXTENDS Integers, Sequences, FiniteSets, TLC

VARIABLES
    input,      \* parseSemver's argument s
    parsed,     \* parseSemver's result (sem, err), or NoResult before the call
    rendered,   \* sem.String() of the parsed version, or NoString
    bsem,       \* a semver value bump is applied to
    bkind,      \* the version kind bump was called with, 0 before the call
    bold,       \* the value of bsem before bump
    next,       \* release's argument: the kind of bump requested
    info,       \* release's argument: include build metadata
    prerelease, \* release's argument: the pre-release label, possibly empty
    editorSet,  \* whether the environment variable EDITOR is non-empty
    pc,         \* the point release (and then main) has reached
    f,          \* the notes temporary file as seen through handle f: content, offset
    buf,        \* the buffer of cleaned notes
    edited,     \* the content of the notes file when the editor exited
    changelog,  \* the content of the changelog temporary file
    tmp,        \* the temporary files that exist on disk
    open,       \* the temporary files with an open handle
    deferred,   \* the deferred cleanups registered so far, in order
    sem,        \* release's variable sem
    revrange,   \* release's variable revrange
    tag,        \* release's variable tag, NoString before it is rendered
    err,        \* the error release returns, "nil" if none
    calls,      \* the external commands run so far, in order
    repoTags,   \* the tags git tag has created
    archives,   \* the archive files git archive has written
    printed     \* what main printed on standard output, NoString if nothing

parseVars == <<input, parsed, rendered>>
bumpVars == <<bsem, bkind, bold>>
reqVars == <<next, info, prerelease, editorSet>>
fileVars == <<f, buf, edited, changelog, tmp, open, deferred>>
verVars == <<sem, revrange, tag>>
outVars == <<repoTags, archives, printed>>
runVars == <<reqVars, pc, fileVars, verVars, err, calls, outVars>>

vars == <<parseVars, bumpVars, runVars>>

(***************************************************************************)
(* Bounds of the model.                                                    *)
(***************************************************************************)
MaxNum == 1         \* numeric segments 0..MaxNum, plain and zero-padded
MaxLabel == 1       \* length of a generated pre-release / build label
MaxField == 2       \* numeric fields of the versions bump is applied to
MaxLines == 1       \* lines the user types into the notes file

(***************************************************************************)
(* Strings.                                                                *)
(***************************************************************************)
Take(s, n) == SubSeq(s, 1, n)
Drop(s, n) == SubSeq(s, n + 1, Len(s))

Strs(alphabet, n) == UNION {[1..k -> alphabet] : k \in 0..n}

Digits == {"0", "1", "2", "3", "4", "5", "6", "7", "8", "9"}

DigitVal(c) ==
    CASE c = "0" -> 0 [] c = "1" -> 1 [] c = "2" -> 2 [] c = "3" -> 3
      [] c = "4" -> 4 [] c = "5" -> 5 [] c = "6" -> 6 [] c = "7" -> 7
      [] c = "8" -> 8 [] c = "9" -> 9

DigitChar(d) ==
    CASE d = 0 -> "0" [] d = 1 -> "1" [] d = 2 -> "2" [] d = 3 -> "3"
      [] d = 4 -> "4" [] d = 5 -> "5" [] d = 6 -> "6" [] d = 7 -> "7"
      [] d = 8 -> "8" [] d = 9 -> "9"

\* strings.Index(s, c) + 1, or 0 when c does not occur in s
IndexOf(s, c) ==
    IF \E i \in 1..Len(s) : s[i] = c
    THEN CHOOSE i \in 1..Len(s) : s[i] = c /\ \A j \in 1..(i - 1) : s[j] # c
    ELSE 0

\* strings.SplitN(s, sep, n) for n > 0: at most n pieces, the last one the
\* unsplit remainder
RECURSIVE SplitN(_, _, _)
SplitN(s, sep, n) ==
    IF n = 1 \/ IndexOf(s, sep) = 0
    THEN <<s>>
    ELSE <<Take(s, IndexOf(s, sep) - 1)>> \o SplitN(Drop(s, IndexOf(s, sep)), sep, n - 1)

\* the value of a string of decimal digits
RECURSIVE DecValue(_)
DecValue(s) ==
    IF Len(s) = 0 THEN 0
    ELSE 10 * DecValue(Take(s, Len(s) - 1)) + DigitVal(s[Len(s)])

\* strconv.ParseInt(s, 10, 64): an optional sign, then one or more decimal
\* digits.  (The range error needs more than 18 digits, beyond the bounds.)
ParseInt(s) ==
    LET signed == Len(s) > 0 /\ s[1] \in {"+", "-"}
        body == IF signed THEN Tail(s) ELSE s
    IN  IF Len(body) = 0 \/ \E i \in 1..Len(body) : body[i] \notin Digits
        THEN [err |-> "syntax", n |-> 0]
        ELSE [err |-> "nil",
              n |-> IF signed /\ s[1] = "-" THEN 0 - DecValue(body) ELSE DecValue(body)]

\* fmt.Sprintf("%d", n)
RECURSIVE Itoa(_)
Itoa(n) ==
    IF n < 0 THEN <<"-">> \o Itoa(0 - n)
    ELSE IF n < 10 THEN <<DigitChar(n)>>
    ELSE Itoa(n \div 10) \o <<DigitChar(n % 10)>>

(***************************************************************************)
(* type version, type semver.                                              *)
(***************************************************************************)
patch == 1
minor == 2
major == 3
Versions == {patch, minor, major}

ZeroSem == [major |-> 0, minor |-> 0, patch |-> 0, prerelease |-> <<>>, build |-> <<>>]

errInvalidSemver == "invalid semver"

(***************************************************************************)
(* parseSemver.                                                            *)
(***************************************************************************)
\* lines 62-68: the index of the first non-digit of the third part, 0 if none
FirstNonDigit(part) ==
    IF \E j \in 1..Len(part) : part[j] \notin Digits
    THEN CHOOSE j \in 1..Len(part) :
             part[j] \notin Digits /\ \A k \in 1..(j - 1) : part[k] \in Digits
    ELSE 0

\* lines 100-111: the scan of the tail; which is the buffer buf points to
\* ("nil" before the first separator).  Appending through the nil pointer
\* panics.
RECURSIVE ScanTail(_, _, _, _)
ScanTail(tail, which, prebuf, buildbuf) ==
    IF Len(tail) = 0
    THEN [panic |-> FALSE, prerelease |-> prebuf, build |-> buildbuf]
    ELSE IF tail[1] = "-" THEN ScanTail(Tail(tail), "pre", prebuf, buildbuf)
    ELSE IF tail[1] = "+" THEN ScanTail(Tail(tail), "build", prebuf, buildbuf)
    ELSE IF which = "pre" THEN ScanTail(Tail(tail), which, Append(prebuf, tail[1]), buildbuf)
    ELSE IF which = "build" THEN ScanTail(Tail(tail), which, prebuf, Append(buildbuf, tail[1]))
    ELSE [panic |-> TRUE, prerelease |-> prebuf, build |-> buildbuf]

parseSemver(s) ==
    IF Len(s) = 0
    THEN [err |-> "panic", sem |-> ZeroSem]          \* s[0]: index out of range
    ELSE
    LET s1 == IF s[1] = "v" THEN Tail(s) ELSE s
        parts == SplitN(s1, ".", 3)
        n == Len(parts)
        j == IF n = 3 THEN FirstNonDigit(parts[3]) ELSE 0
        tail == IF j > 0 THEN Drop(parts[3], j - 1) ELSE <<>>
        part(i) == IF i = 3 /\ j > 0 THEN Take(parts[3], j - 1) ELSE parts[i]
        num(i) == ParseInt(part(i))
        \* the first part that fails to parse, n + 1 if none does
        bad == IF \E i \in 1..n : num(i).err # "nil"
               THEN CHOOSE i \in 1..n :
                        num(i).err # "nil" /\ \A k \in 1..(i - 1) : num(k).err = "nil"
               ELSE n + 1
        field(i) == IF i < bad /\ i <= n THEN num(i).n ELSE 0
        sv == [major |-> field(1), minor |-> field(2), patch |-> field(3),
                prerelease |-> <<>>, build |-> <<>>]
        scan == ScanTail(tail, "nil", <<>>, <<>>)
    IN  IF bad <= n THEN [err |-> num(bad).err, sem |-> sv]
        ELSE IF Len(tail) = 0 THEN [err |-> "nil", sem |-> sv]
        ELSE IF tail[1] # "-" /\ tail[1] # "+" THEN [err |-> errInvalidSemver, sem |-> sv]
        ELSE IF scan.panic THEN [err |-> "panic", sem |-> sv]
        ELSE [err |-> "nil",
              sem |-> [sv EXCEPT !.prerelease = scan.prerelease, !.build = scan.build]]

(***************************************************************************)
(* semver.bump, semver.String.                                             *)
(***************************************************************************)
\* bump without the reset of the build field
bump_KeepBuild(sv, v) ==
    LET clean == [sv EXCEPT !.prerelease = <<>>]
    IN  CASE v = patch -> [clean EXCEPT !.patch = @ + 1]
          [] v = minor -> [clean EXCEPT !.patch = 0, !.minor = @ + 1]
          [] v = major -> [clean EXCEPT !.patch = 0, !.minor = 0, !.major = @ + 1]
          [] OTHER -> clean

\* bump whose minor case forgets to reset patch
bump_MinorKeepsPatch(sv, v) ==
    LET clean == [sv EXCEPT !.prerelease = <<>>, !.build = <<>>]
    IN  CASE v = patch -> [clean EXCEPT !.patch = @ + 1]
          [] v = minor -> [clean EXCEPT !.minor = @ + 1]
          [] v = major -> [clean EXCEPT !.patch = 0, !.minor = 0, !.major = @ + 1]
          [] OTHER -> clean

\* bump whose major case resets minor and patch but forgets the increment
bump_MajorNotIncremented(sv, v) ==
    LET clean == [sv EXCEPT !.prerelease = <<>>, !.build = <<>>]
    IN  CASE v = patch -> [clean EXCEPT !.patch = @ + 1]
          [] v = minor -> [clean EXCEPT !.patch = 0, !.minor = @ + 1]
          [] v = major -> [clean EXCEPT !.patch = 0, !.minor = 0]
          [] OTHER -> clean

bump(sv, v) ==
    LET clean == [sv EXCEPT !.prerelease = <<>>, !.build = <<>>]
    IN  CASE v = patch -> [clean EXCEPT !.patch = @ + 1]
          [] v = minor -> [clean EXCEPT !.patch = 0, !.minor = @ + 1]
          [] v = major -> [clean EXCEPT !.patch = 0, !.minor = 0, !.major = @ + 1]
          [] OTHER -> clean

\* String with the build metadata written before the pre-release label
String_BuildFirst(sv) ==
    LET s == <<"v">> \o Itoa(sv.major) \o <<".">> \o Itoa(sv.minor) \o <<".">> \o Itoa(sv.patch)
        s2 == IF sv.build # <<>> THEN s \o <<"+">> \o sv.build ELSE s
    IN  IF sv.prerelease # <<>> THEN s2 \o <<"-">> \o sv.prerelease ELSE s2

String(sv) ==
    LET s == <<"v">> \o Itoa(sv.major) \o <<".">> \o Itoa(sv.minor) \o <<".">> \o Itoa(sv.patch)
        s2 == IF sv.prerelease # <<>> THEN s \o <<"-">> \o sv.prerelease ELSE s
    IN  IF sv.build # <<>> THEN s2 \o <<"+">> \o sv.build ELSE s2

(***************************************************************************)
(* The pure functions under bounded inputs.                                *)
(*                                                                         *)
(* SpecParse draws parseSemver's argument from strings built as            *)
(*   [v] seg { . seg } tail                                                *)
(* with one to three segments (numerals, zero-padded numerals, signed      *)
(* numerals, letters, nothing) and a tail of up to two qualifiers in       *)
(* either order, or a tail that starts with neither separator; the empty   *)
(* string is an input too.                                                 *)
(***************************************************************************)
NoResult == [err |-> "none", sem |-> ZeroSem]
NoString == <<"?">>

NumSegs == {Itoa(k) : k \in 0..MaxNum} \cup {<<"0">> \o Itoa(k) : k \in 0..MaxNum}
            \cup {<<"1", "0">>}
BadSegs == {<<>>, <<"a">>, <<"-", "1">>}
Segs == NumSegs \cup BadSegs

Qualifiers == {<<"-">> \o l : l \in Strs({"a"}, MaxLabel)}
                \cup {<<"+">> \o l : l \in Strs({"b"}, MaxLabel)}
Tails == {<<>>} \cup Qualifiers \cup {q1 \o q2 : q1 \in Qualifiers, q2 \in Qualifiers}
           \cup {<<"a">>, <<".", "1">>}
Prefixes == {<<>>, <<"v">>}

RECURSIVE Join(_)
Join(segs) ==
    IF Len(segs) = 1 THEN segs[1]
    ELSE segs[1] \o <<".">> \o Join(Tail(segs))

ParseInputs ==
    {<<>>} \cup
    {p \o Join(segs) \o q : p \in Prefixes,
                             segs \in UNION {[1..k -> Segs] : k \in 1..3},
                             q \in Tails}

BumpInputs ==
    [major : 0..MaxField, minor : 0..MaxField, patch : 0..MaxField,
     prerelease : Strs({"a"}, MaxLabel), build : Strs({"b"}, MaxLabel)]

InitBumpIdle == bsem = ZeroSem /\ bkind = 0 /\ bold = ZeroSem
InitParseIdle == input = <<>> /\ parsed = NoResult /\ rendered = NoString
InitRunIdle ==
    /\ next = patch /\ info = FALSE /\ prerelease = <<>> /\ editorSet = TRUE
    /\ pc = "idle"
    /\ f = [content |-> <<>>, off |-> 0] /\ buf = <<>> /\ edited = <<>>
    /\ changelog = <<>> /\ tmp = {} /\ open = {} /\ deferred = <<>>
    /\ sem = ZeroSem /\ revrange = <<>> /\ tag = NoString
    /\ err = "nil" /\ calls = <<>>
    /\ repoTags = {} /\ archives = {} /\ printed = NoString

InitParse ==
    /\ input \in ParseInputs
    /\ parsed = NoResult
    /\ rendered = NoString
    /\ InitBumpIdle
    /\ InitRunIdle

\* sem, err := parseSemver(s)
Parse ==
    /\ parsed = NoResult
    /\ parsed' = parseSemver(input)
    /\ UNCHANGED <<input, rendered, bumpVars, runVars>>

\* sem.String() of a version that was parsed without error
Render ==
    /\ parsed.err = "nil"
    /\ rendered = NoString
    /\ rendered' = String(parsed.sem)
    /\ UNCHANGED <<input, parsed, bumpVars, runVars>>

NextParse == Parse \/ Render

SpecParse == InitParse /\ [][NextParse]_vars

InitBump ==
    /\ bsem \in BumpInputs
    /\ bkind = 0
    /\ bold = bsem
    /\ InitParseIdle
    /\ InitRunIdle

\* sem.bump(v)
Bump(v) ==
    /\ bkind = 0
    /\ bkind' = v
    /\ bold' = bsem
    /\ bsem' = bump(bsem, v)
    /\ UNCHANGED <<parseVars, runVars>>

NextBump == \E v \in Versions : Bump(v)

SpecBump == InitBump /\ [][NextBump]_vars

(***************************************************************************)
(* Files, the scanner, and the texts the outside world supplies.           *)
(***************************************************************************)
\* f.Seek(0, io.SeekStart)
Seek0(file) == [file EXCEPT !.off = 0]

\* a truncation that leaves the old content in place
Truncate0_Noop(file) == file

\* f.Truncate(0): the size becomes 0, the offset of the handle stays
Truncate0(file) == [file EXCEPT !.content = <<>>]

\* a write of data at the handle's offset (io.WriteString, io.Copy,
\* fmt.Fprintf): bytes under the write are replaced, a gap is zero-filled
Write(file, data) ==
    LET gap == IF file.off > Len(file.content)
               THEN [i \in 1..(file.off - Len(file.content)) |-> "\\0"] ELSE <<>>
    IN  [content |-> Take(file.content \o gap, file.off) \o data
                        \o Drop(file.content, file.off + Len(data)),
         off |-> file.off + Len(data)]

\* what a reader of the handle gets up to end of file
Unread(file) == Drop(file.content, file.off)

DropCR(x) == IF Len(x) > 0 /\ x[Len(x)] = "\r" THEN Take(x, Len(x) - 1) ELSE x

\* the tokens of bufio.Scanner with the default split function ScanLines
RECURSIVE ScanLines(_)
ScanLines(data) ==
    IF Len(data) = 0 THEN <<>>
    ELSE IF IndexOf(data, "\n") = 0 THEN <<DropCR(data)>>
    ELSE <<DropCR(Take(data, IndexOf(data, "\n") - 1))>>
            \o ScanLines(Drop(data, IndexOf(data, "\n")))

\* lines 228-235 with the test for a comment line widened to "contains #"
RECURSIVE CleanNotes_AnyHash(_)
CleanNotes_AnyHash(lines) ==
    IF Len(lines) = 0 THEN <<>>
    ELSE IF \E i \in 1..Len(lines[1]) : lines[1][i] = "#"
         THEN CleanNotes_AnyHash(Tail(lines))
         ELSE lines[1] \o <<"\n">> \o CleanNotes_AnyHash(Tail(lines))

\* lines 228-235: every scanned line that does not start with # is
\* written to buf by fmt.Fprintln
RECURSIVE CleanNotes(_)
CleanNotes(lines) ==
    IF Len(lines) = 0 THEN <<>>
    ELSE IF Len(lines[1]) > 0 /\ lines[1][1] = "#"
         THEN CleanNotes(Tail(lines))
         ELSE lines[1] \o <<"\n">> \o CleanNotes(Tail(lines))

\* notesPreamble: three lines that start with #, each cut after its first
\* seven characters
notesPreamble ==
    <<"#", " ", "E", "n", "t", "e", "r", "\n",
      "#", " ", "o", "f", " ", "w", "h", "\n",
      "#", " ", "o", "u", "t", "p", "u", "\n">>

\* "\nChangelog:\n\n"
ChangelogHeader ==
    <<"\n", "C", "h", "a", "n", "g", "e", "l", "o", "g", ":", "\n", "\n">>

\* what the user leaves in the notes file: the preamble kept or deleted,
\* then up to MaxLines lines (blank, text with a # inside, comment), then
\* possibly a last line without a newline
NoteLines == {<<>>, <<"a", "#">>, <<"#", "a">>}

RECURSIVE JoinLines(_)
JoinLines(ls) == IF Len(ls) = 0 THEN <<>> ELSE ls[1] \o <<"\n">> \o JoinLines(Tail(ls))

EditedContents ==
    {p \o JoinLines(ls) \o e : p \in {notesPreamble, <<>>},
                              ls \in Strs(NoteLines, MaxLines),
                              e \in {<<>>, <<"x">>}}

\* the output of git describe --abbrev=0 when it succeeds: a tag name and
\* a newline
DescribeOutputs ==
    { <<"v", "0", ".", "0", ".", "2", "\n">>,
      <<"v", "0", ".", "0", ".", "1", "-", "a", "l", "p", "h", "a", "+",
        "1", "a", "2", "b", "3", "c", "4", "\n">>,
      <<"1", ".", "9", ".", "9", "\n">>,
      <<"v", "1", ".", "2", "\n">>,
      <<"n", "i", "g", "h", "t", "l", "y", "\n">> }

\* the output of git log -n 1 --format=%h when it succeeds
HashOutputs == { <<"1", "a", "2", "b", "3", "c", "4", "\n">> }

\* the output of git shortlog
ShortlogOutputs ==
    { <<>>, <<"A", " ", "(", "1", ")", ":", "\n", " ", "i", "n", "i", "t", "\n", "\n">> }

\* the pre-release labels given on the command line
Labels == { <<>>, <<"r", "c", "1">>, <<"a", "-", "b">> }

\* standard error of a failing git command, line by line
NoNames == <<"fatal: No names found, cannot describe anything.">>
Stderrs == { <<"fatal: failed", "hint: see the manual">> }

HEAD == <<"H", "E", "A", "D">>
TrimSuffixNL(s) == IF Len(s) > 0 /\ s[Len(s)] = "\n" THEN Take(s, Len(s) - 1) ELSE s

\* the name git archive writes to, with a wrong extension
ArchiveName_Zip(t) == t \o <<".", "z", "i", "p">>

\* tag + ".tar.gz"
ArchiveName(t) == t \o <<".", "t", "a", "r", ".", "g", "z">>

\* the range left at "HEAD" although a previous tag was found
RevRange_Head(prev) == HEAD

\* line 258: prev + "..HEAD"
RevRange(prev) == prev \o <<".", ".">> \o HEAD

\* a command that was run: its arguments, what it wrote to standard output
\* and, line by line, to standard error, and how it ended
Call(op, args, out, res, stderr) ==
    [op |-> op, args |-> args, out |-> out, res |-> res, stderr |-> stderr]

(***************************************************************************)
(* release and main.  One action per step of release between two external  *)
(* effects; a step that returns an error goes to "return", where the       *)
(* deferred cleanups run.                                                  *)
(***************************************************************************)
Init ==
    /\ next \in Versions
    /\ info \in BOOLEAN
    /\ prerelease \in Labels
    /\ editorSet \in BOOLEAN
    /\ pc = "start"
    /\ f = [content |-> <<>>, off |-> 0] /\ buf = <<>> /\ edited = <<>>
    /\ changelog = <<>> /\ tmp = {} /\ open = {} /\ deferred = <<>>
    /\ sem = ZeroSem /\ revrange = <<>> /\ tag = NoString
    /\ err = "nil" /\ calls = <<>>
    /\ repoTags = {} /\ archives = {} /\ printed = NoString
    /\ InitParseIdle
    /\ InitBumpIdle

Fail(e) == err' = e /\ pc' = "return"

\* lines 205-216: the notes file is created and the preamble written
CreateNotesFile ==
    /\ pc = "start"
    /\ \/ /\ Fail("create temp")
          /\ UNCHANGED <<fileVars, calls>>
       \/ /\ tmp' = tmp \cup {"notes"}
          /\ open' = open \cup {"notes"}
          /\ deferred' = Append(deferred, "notes")
          /\ f' = Write([content |-> <<>>, off |-> 0], notesPreamble)
          /\ pc' = "editor"
          /\ UNCHANGED <<buf, edited, changelog, err, calls>>
    /\ UNCHANGED <<parseVars, bumpVars, reqVars, verVars, outVars>>

\* lines 218-220 and openInEditor
OpenInEditor ==
    /\ pc = "editor"
    /\ \/ /\ ~editorSet
          /\ Fail("EDITOR not set")
          /\ UNCHANGED <<f, edited, calls>>
       \/ /\ editorSet
          /\ calls' = Append(calls, Call("editor", <<>>, <<>>, "fail", <<>>))
          /\ Fail("exit status 1")
          /\ UNCHANGED <<f, edited>>
       \/ /\ editorSet
          /\ \E text \in EditedContents :
                /\ f' = [f EXCEPT !.content = text]
                /\ edited' = text
          /\ calls' = Append(calls, Call("editor", <<>>, <<>>, "ok", <<>>))
          /\ pc' = "scan"
          /\ UNCHANGED err
    /\ UNCHANGED <<buf, changelog, tmp, open, deferred>>
    /\ UNCHANGED <<parseVars, bumpVars, reqVars, verVars, outVars>>

\* lines 222-244: the notes are read back, cleaned and written over the file
ScanNotes ==
    /\ pc = "scan"
    /\ \/ /\ Fail("read error")
          /\ f' = [f EXCEPT !.off = Len(f.content)]
          /\ UNCHANGED buf
       \/ LET cleaned == CleanNotes(ScanLines(Unread(Seek0(f))))
              atEnd == [f EXCEPT !.off = Len(f.content)]
          IN  /\ buf' = cleaned
              /\ f' = Write(Seek0(Truncate0(atEnd)), cleaned)
              /\ pc' = "describe"
              /\ UNCHANGED err
    /\ UNCHANGED <<edited, changelog, tmp, open, deferred, calls>>
    /\ UNCHANGED <<parseVars, bumpVars, reqVars, verVars, outVars>>

\* lines 246-259: the previous tag is looked up and parsed
GitDescribe ==
    /\ pc = "describe"
    /\ \/ \E out \in DescribeOutputs :
            LET prev == TrimSuffixNL(out)
                res == parseSemver(prev)
            IN  /\ calls' = Append(calls, Call("describe", <<>>, out, "ok", <<>>))
                /\ sem' = res.sem
                /\ IF res.err = "nil"
                   THEN /\ revrange' = RevRange(prev)
                        /\ pc' = "bump"
                        /\ UNCHANGED err
                   ELSE /\ UNCHANGED revrange
                        /\ err' = res.err
                        /\ pc' = IF res.err = "panic" THEN "panic" ELSE "return"
       \/ \E lines \in {NoNames} \cup Stderrs :
            /\ calls' = Append(calls, Call("describe", <<>>, <<>>,
                                           IF lines = NoNames THEN "no tag" ELSE "fail",
                                           lines))
            /\ revrange' = HEAD
            /\ pc' = "bump"
            /\ UNCHANGED <<sem, err>>
    /\ UNCHANGED <<tag, fileVars>>
    /\ UNCHANGED <<parseVars, bumpVars, reqVars, outVars>>

\* lines 261-262 without the assignment of the requested label
BumpVersion_NoLabel ==
    /\ pc = "bump"
    /\ sem' = bump(sem, next)
    /\ pc' = IF info THEN "log" ELSE "shortlog"
    /\ UNCHANGED <<revrange, tag, fileVars, err, calls>>
    /\ UNCHANGED <<parseVars, bumpVars, reqVars, outVars>>

\* lines 261-262 followed by the hash lookup whether or not info is set
BumpVersion_AlwaysLog ==
    /\ pc = "bump"
    /\ sem' = [bump(sem, next) EXCEPT !.prerelease = prerelease]
    /\ pc' = "log"
    /\ UNCHANGED <<revrange, tag, fileVars, err, calls>>
    /\ UNCHANGED <<parseVars, bumpVars, reqVars, outVars>>

\* lines 261-262
BumpVersion ==
    /\ pc = "bump"
    /\ sem' = [bump(sem, next) EXCEPT !.prerelease = prerelease]
    /\ pc' = IF info THEN "log" ELSE "shortlog"
    /\ UNCHANGED <<revrange, tag, fileVars, err, calls>>
    /\ UNCHANGED <<parseVars, bumpVars, reqVars, outVars>>

\* lines 264-275: the abbreviated hash of HEAD becomes the build metadata
GitLog ==
    /\ pc = "log"
    /\ \/ \E out \in HashOutputs :
            /\ calls' = Append(calls, Call("log", <<>>, out, "ok", <<>>))
            /\ sem' = [sem EXCEPT !.build = IF Len(out) > 0 THEN Take(out, Len(out) - 1) ELSE out]
            /\ pc' = "shortlog"
            /\ UNCHANGED err
       \/ \E lines \in Stderrs :
            /\ calls' = Append(calls, Call("log", <<>>, <<>>, "fail", lines))
            /\ sem' = [sem EXCEPT !.build = <<>>]
            /\ Fail(lines[1])
    /\ UNCHANGED <<revrange, tag, fileVars>>
    /\ UNCHANGED <<parseVars, bumpVars, reqVars, outVars>>

\* lines 277-286 and gitshortlog
GitShortlog ==
    /\ pc = "shortlog"
    /\ \/ /\ Fail("create temp")
          /\ UNCHANGED <<changelog, tmp, open, deferred, calls>>
       \/ \E lines \in Stderrs :
            /\ tmp' = tmp \cup {"changelog"}
            /\ open' = open \cup {"changelog"}
            /\ calls' = Append(calls, Call("shortlog", <<revrange>>, <<>>, "fail", lines))
            /\ Fail(lines[1])
            /\ UNCHANGED <<changelog, deferred>>
       \/ \E out \in ShortlogOutputs :
            /\ tmp' = tmp \cup {"changelog"}
            /\ open' = open \cup {"changelog"}
            /\ calls' = Append(calls, Call("shortlog", <<revrange>>, out, "ok", <<>>))
            /\ changelog' = out
            /\ deferred' = Append(deferred, "changelog")
            /\ pc' = "assemble"
            /\ UNCHANGED err
    /\ UNCHANGED <<f, buf, edited, verVars>>
    /\ UNCHANGED <<parseVars, bumpVars, reqVars, outVars>>

\* lines 288-289: the header and the changelog are appended to the notes
AssembleMessage ==
    /\ pc = "assemble"
    /\ f' = Write(Write(f, ChangelogHeader), changelog)
    /\ pc' = "tag"
    /\ UNCHANGED <<buf, edited, changelog, tmp, open, deferred, verVars, err, calls>>
    /\ UNCHANGED <<parseVars, bumpVars, reqVars, outVars>>

\* lines 291-295 and gittag
GitTag ==
    /\ pc = "tag"
    /\ tag' = String(sem)
    /\ \/ /\ calls' = Append(calls, Call("tag", <<tag', f.content>>, <<>>, "ok", <<>>))
          /\ repoTags' = repoTags \cup {tag'}
          /\ pc' = "archive"
          /\ UNCHANGED err
       \/ \E lines \in Stderrs :
            /\ calls' = Append(calls, Call("tag", <<tag', f.content>>, <<>>, "fail", lines))
            /\ Fail("exit status 1")
            /\ UNCHANGED repoTags
    /\ UNCHANGED <<sem, revrange, fileVars, archives, printed>>
    /\ UNCHANGED <<parseVars, bumpVars, reqVars>>

\* lines 297-300 with the tag deleted again when the archive fails
GitArchive_Rollback ==
    /\ pc = "archive"
    /\ \/ /\ calls' = Append(calls, Call("archive", <<ArchiveName(tag), tag>>, <<>>, "ok", <<>>))
          /\ archives' = archives \cup {ArchiveName(tag)}
          /\ pc' = "return"
          /\ UNCHANGED <<err, repoTags>>
       \/ \E lines \in Stderrs :
            /\ calls' = Append(calls, Call("archive", <<ArchiveName(tag), tag>>, <<>>, "fail", lines))
            /\ Fail(lines[1])
            /\ repoTags' = repoTags \ {tag}
            /\ UNCHANGED archives
    /\ UNCHANGED <<verVars, fileVars, printed>>
    /\ UNCHANGED <<parseVars, bumpVars, reqVars>>

\* lines 297-300
GitArchive ==
    /\ pc = "archive"
    /\ \/ /\ calls' = Append(calls, Call("archive", <<ArchiveName(tag), tag>>, <<>>, "ok", <<>>))
          /\ archives' = archives \cup {ArchiveName(tag)}
          /\ pc' = "return"
          /\ UNCHANGED err
       \/ \E lines \in Stderrs :
            /\ calls' = Append(calls, Call("archive", <<ArchiveName(tag), tag>>, <<>>, "fail", lines))
            /\ Fail(lines[1])
            /\ UNCHANGED archives
    /\ UNCHANGED <<verVars, fileVars, repoTags, printed>>
    /\ UNCHANGED <<parseVars, bumpVars, reqVars>>

\* lines 211-214 and 283-286: the deferred cleanups run as release returns
Return ==
    /\ pc = "return"
    /\ open' = open \ {deferred[i] : i \in 1..Len(deferred)}
    /\ tmp' = tmp \ {deferred[i] : i \in 1..Len(deferred)}
    /\ pc' = "main"
    /\ UNCHANGED <<f, buf, edited, changelog, deferred, verVars, err, calls, outVars>>
    /\ UNCHANGED <<parseVars, bumpVars, reqVars>>

\* lines 341-347: main reports the error, or prints the version
Report ==
    /\ pc = "main"
    /\ IF err = "nil"
       THEN printed' = String(sem) /\ pc' = "done"
       ELSE UNCHANGED printed /\ pc' = "failed"
    /\ UNCHANGED <<fileVars, verVars, err, calls, repoTags, archives>>
    /\ UNCHANGED <<parseVars, bumpVars, reqVars>>

Next ==
    \/ CreateNotesFile
    \/ OpenInEditor
    \/ ScanNotes
    \/ GitDescribe
    \/ BumpVersion
    \/ GitLog
    \/ GitShortlog
    \/ AssembleMessage
    \/ GitTag
    \/ GitArchive
    \/ Return
    \/ Report

Spec == Init /\ [][Next]_vars

(***************************************************************************)
(* Properties of the parser, bump and the renderer.                        *)
(***************************************************************************)
StripV(s) == IF Len(s) > 0 /\ s[1] = "v" THEN Tail(s) ELSE s
Canonical(s) == <<"v">> \o StripV(s)

IsNumeral(x) == Len(x) > 0 /\ \A i \in 1..Len(x) : x[i] \in Digits
NoLeadingZero(x) == Len(x) = 1 \/ x[1] # "0"
IsLabel(x) == Len(x) > 0 /\ \A i \in 1..Len(x) : x[i] \notin {"-", "+"}

IsQualifierTail(q) ==
    \/ q = <<>>
    \/ q[1] \in {"-", "+"} /\ IsLabel(Tail(q))
    \/ /\ q[1] = "-"
       /\ \E k \in 2..Len(q) :
             q[k] = "+" /\ IsLabel(SubSeq(q, 2, k - 1)) /\ IsLabel(Drop(q, k))

\* s is [v]<a>.<b>.<c>[-pre][+build] with a, b, c satisfying Num
Shaped(s, Num(_)) ==
    LET t == StripV(s)
    IN  \E i1 \in 1..Len(t), i2 \in 1..Len(t), j \in 1..Len(t) :
            /\ i1 < i2 /\ i2 < j
            /\ t[i1] = "." /\ t[i2] = "."
            /\ Num(SubSeq(t, 1, i1 - 1))
            /\ Num(SubSeq(t, i1 + 1, i2 - 1))
            /\ Num(SubSeq(t, i2 + 1, j))
            /\ (j < Len(t) => t[j + 1] \notin Digits)
            /\ IsQualifierTail(Drop(t, j))

WellFormed(s) == Shaped(s, IsNumeral)
PlainNumeral(x) == IsNumeral(x) /\ NoLeadingZero(x)
WellFormedPlain(s) == Shaped(s, PlainNumeral)

\* C1 as stated: for every well-formed version string s, parseSemver(s)
\* succeeds and String of the result is the canonical v-prefixed form of s.
C1_RoundTripAnyNumeral ==
    (WellFormed(input) /\ parsed # NoResult) =>
        /\ parsed.err = "nil"
        /\ (rendered # NoString => rendered = Canonical(input))

\* C1 amended: the round trip holds for every well-formed version string
\* whose three numeric segments are written without leading zeros.
C1_RoundTrip ==
    (WellFormedPlain(input) /\ parsed # NoResult) =>
        /\ parsed.err = "nil"
        /\ (rendered # NoString => rendered = Canonical(input))

C1_Witness ==
    /\ WellFormedPlain(input)
    /\ input[1] # "v"
    /\ parsed.err = "nil"
    /\ parsed.sem.prerelease # <<>> /\ parsed.sem.build # <<>>
    /\ parsed.sem.major = 10
    /\ rendered = <<"v">> \o input

\* C2: after bump, of any kind, prerelease and build are both empty.
C2_BumpResetsQualifiers ==
    bkind # 0 => (bsem.prerelease = <<>> /\ bsem.build = <<>>)

C2_Witness ==
    bkind = minor /\ bold.prerelease # <<>> /\ bold.build # <<>> /\ bsem.build = <<>>

\* C3: bump(patch) yields (major, minor, patch+1), bump(minor) yields
\* (major, minor+1, 0), bump(major) yields (major+1, 0, 0).
C3_BumpNumericFields ==
    LET new == <<bsem.major, bsem.minor, bsem.patch>>
    IN  /\ bkind = patch => new = <<bold.major, bold.minor, bold.patch + 1>>
        /\ bkind = minor => new = <<bold.major, bold.minor + 1, 0>>
        /\ bkind = major => new = <<bold.major + 1, 0, 0>>

C3_Witness ==
    bkind = minor /\ bold.patch > 0 /\ bold.major > 0 /\ bsem.patch = 0

\* the segments the parser reads numbers from: the pieces of the text
\* after the optional v, the third one up to its first non-digit
NumericSegments(s) ==
    LET parts == SplitN(StripV(s), ".", 3)
        j == IF Len(parts) = 3 THEN FirstNonDigit(parts[3]) ELSE 0
    IN  [i \in 1..Len(parts) |->
            IF i = 3 /\ j > 0 THEN Take(parts[3], j - 1) ELSE parts[i]]

QualifierTail(s) ==
    LET parts == SplitN(StripV(s), ".", 3)
        j == IF Len(parts) = 3 THEN FirstNonDigit(parts[3]) ELSE 0
    IN  IF j > 0 THEN Drop(parts[3], j - 1) ELSE <<>>

\* C4: parseSemver returns an error for every string with a non-numeric
\* major, minor or patch segment, and for every string whose qualifier tail
\* does not start with - or +.  (Stated for the strings with three segments;
\* the strings with fewer are the subject of C5.)
C4_MalformedRejected ==
    (/\ parsed # NoResult
     /\ Len(NumericSegments(input)) = 3
     /\ \/ \E i \in DOMAIN NumericSegments(input) : ~IsNumeral(NumericSegments(input)[i])
        \/ QualifierTail(input) # <<>> /\ QualifierTail(input)[1] \notin {"-", "+"})
    => parsed.err # "nil"

\* C5: parseSemver succeeds only when the text after the optional v
\* splits on . into exactly three segments.
C5_ThreeSegmentsOnSuccess ==
    parsed.err = "nil" => Len(SplitN(StripV(input), ".", 3)) = 3

(***************************************************************************)
(* Properties of the release pipeline.                                     *)
(***************************************************************************)
HasCall(op) == \E i \in 1..Len(calls) : calls[i].op = op
TheCall(op) == calls[CHOOSE i \in 1..Len(calls) : calls[i].op = op]

DropLast(s) == SubSeq(s, 1, Len(s) - 1)

\* the version has been resolved: bumped and given its qualifiers
Resolved == pc \in {"shortlog", "assemble", "tag", "archive"} \/ HasCall("shortlog")

Tag_v0_0_1 == <<"v", "0", ".", "0", ".", "1">>
Tag_v0_0_2 == <<"v", "0", ".", "0", ".", "2">>
Tag_v0_0_1_alpha == Tag_v0_0_1 \o <<"-", "a", "l", "p", "h", "a", "+", "1", "a", "2", "b", "3", "c", "4">>
Tag_v1_0_0_rc1 == <<"v", "1", ".", "0", ".", "0", "-", "r", "c", "1">>

\* C6: when git describe reports that no tag exists the previous version is
\* the zero version and the range is HEAD (and a patch bump without
\* qualifiers then gives v0.0.1); when it returns a tag the previous version
\* is the parse of the tag without its newline and the range is <tag>..HEAD.
C6_VersionResolution ==
    /\ pc = "bump" =>
          LET d == TheCall("describe")
          IN  /\ d.res = "no tag" => (sem = ZeroSem /\ revrange = <<"H", "E", "A", "D">>)
              /\ d.res = "ok" =>
                    /\ sem = parseSemver(DropLast(d.out)).sem
                    /\ revrange = DropLast(d.out) \o <<".", ".", "H", "E", "A", "D">>
              /\ d.out = Tag_v0_0_1_alpha \o <<"\n">> =>
                    sem = [major |-> 0, minor |-> 0, patch |-> 1,
                           prerelease |-> <<"a", "l", "p", "h", "a">>,
                           build |-> <<"1", "a", "2", "b", "3", "c", "4">>]
    /\ (/\ tag # NoString
        /\ TheCall("describe").res = "no tag"
        /\ next = patch /\ prerelease = <<>> /\ ~info) => tag = Tag_v0_0_1

C6_Witness ==
    /\ pc = "bump"
    /\ TheCall("describe").out = Tag_v0_0_1_alpha \o <<"\n">>
    /\ revrange = Tag_v0_0_1_alpha \o <<".", ".", "H", "E", "A", "D">>

\* C7: the resolved version is bump(previous) with the pre-release label of
\* the request and, as build, the commit hash without its newline if build
\* metadata was requested and nothing otherwise; v0.0.1-alpha+1a2b3c4 and
\* patch give v0.0.2, v0.0.2 and major rc1 give v1.0.0-rc1.
C7_QualifiersFromRequest ==
    /\ Resolved =>
          LET d == TheCall("describe")
              previous == IF d.res = "ok" THEN parseSemver(DropLast(d.out)).sem ELSE ZeroSem
              hash == IF info THEN TrimSuffixNL(TheCall("log").out) ELSE <<>>
          IN  sem = [bump(previous, next) EXCEPT !.prerelease = prerelease, !.build = hash]
    /\ (/\ tag # NoString
        /\ TheCall("describe").out = Tag_v0_0_1_alpha \o <<"\n">>
        /\ next = patch /\ prerelease = <<>> /\ ~info) => tag = Tag_v0_0_2
    /\ (/\ tag # NoString
        /\ TheCall("describe").out = Tag_v0_0_2 \o <<"\n">>
        /\ next = major /\ prerelease = <<"r", "c", "1">> /\ ~info) => tag = Tag_v1_0_0_rc1

C7_Witness ==
    /\ tag = Tag_v1_0_0_rc1 \o <<"+", "1", "a", "2", "b", "3", "c", "4">>
    /\ TheCall("describe").out = Tag_v0_0_1_alpha \o <<"\n">>
    /\ info

\* the lines of a text: the pieces between newlines, and a last piece
\* without a newline if there is one
NewlinesUpTo(s, i) == Cardinality({j \in 1..i : s[j] = "\n"})
LineStart(s, k) ==
    IF k = 1 THEN 1
    ELSE 1 + CHOOSE i \in 1..Len(s) : s[i] = "\n" /\ NewlinesUpTo(s, i) = k - 1
LineEnd(s, k) ==
    IF NewlinesUpTo(s, Len(s)) >= k
    THEN (CHOOSE i \in 1..Len(s) : s[i] = "\n" /\ NewlinesUpTo(s, i) = k) - 1
    ELSE Len(s)
LinesOf(s) ==
    LET n == NewlinesUpTo(s, Len(s))
                + (IF Len(s) > 0 /\ s[Len(s)] # "\n" THEN 1 ELSE 0)
    IN  [k \in 1..n |-> SubSeq(s, LineStart(s, k), LineEnd(s, k))]

IsComment(line) == Len(line) > 0 /\ line[1] = "#"
NotComment(line) == ~IsComment(line)

\* the notes have been read back and cleaned
Scanned == pc = "describe" \/ HasCall("describe")

\* C8: no line of the collected notes starts with #, and the collected
\* notes are the other lines of the edited file, blank ones included, in
\* their order.
C8_CommentStripping ==
    Scanned =>
        /\ \A k \in DOMAIN LinesOf(buf) : ~IsComment(LinesOf(buf)[k])
        /\ LinesOf(buf) = SelectSeq(LinesOf(edited), NotComment)

C8_Witness ==
    /\ Scanned
    /\ edited = notesPreamble \o <<"a", "#", "\n", "x">>
    /\ buf = <<"a", "#", "\n", "x", "\n">>

Separator == <<"\n", "C", "h", "a", "n", "g", "e", "l", "o", "g", ":", "\n", "\n">>

\* C9: the message file given to git tag holds the cleaned notes, then
\* "\nChangelog:\n\n", then the whole output of git shortlog.
C9_TagMessage ==
    \A i \in 1..Len(calls) :
        calls[i].op = "tag" =>
            /\ calls[i].args[2] = buf \o Separator \o TheCall("shortlog").out
            /\ buf = JoinLines(SelectSeq(LinesOf(edited), NotComment))

C9_Witness ==
    /\ HasCall("tag")
    /\ edited = notesPreamble \o <<"a", "#", "\n">>
    /\ buf = <<"a", "#", "\n">>
    /\ TheCall("shortlog").out # <<>>
    /\ TheCall("tag").args[2] = buf \o Separator \o TheCall("shortlog").out

TarGz == <<".", "t", "a", "r", ".", "g", "z">>

\* C10: the version is not changed after it is rendered; the tag created,
\* the ref archived, the archive's name without .tar.gz and the version
\* printed are the one rendered string; a successful run leaves exactly one
\* archive, <tag>.tar.gz.
C10_OneName ==
    /\ tag # NoString => String(sem) = tag
    /\ \A i \in 1..Len(calls) :
          /\ calls[i].op = "tag" => calls[i].args[1] = tag
          /\ calls[i].op = "archive" => calls[i].args = <<tag \o TarGz, tag>>
    /\ pc = "done" =>
          /\ printed = tag
          /\ repoTags = {tag}
          /\ archives = {tag \o TarGz}

C10_Witness ==
    /\ pc = "done"
    /\ printed = Tag_v0_0_1 \o <<"-", "a", "-", "b", "+", "1", "a", "2", "b", "3", "c", "4">>
    /\ archives = {printed \o TarGz}

(***************************************************************************)
(* Properties of the run as a whole: resources, errors, order.             *)
(***************************************************************************)
\* release has returned
Ended == pc \in {"main", "done", "failed"}

\* C11: when the run has ended, on success or on failure at any stage,
\* every temporary file created during the run is closed and removed.
C11_TempFilesReleased ==
    Ended => (tmp = {} /\ open = {})

\* C12: a failure of git describe other than "no tag exists" makes the run
\* fail with that error; the run does not continue as a first release.
C12_OnlyNotFoundSwallowed ==
    \A i \in 1..Len(calls) :
        (calls[i].op = "describe" /\ calls[i].res = "fail") =>
            /\ pc \in {"return", "main", "failed"}
            /\ err = calls[i].stderr[1]
            /\ i = Len(calls)

GitOps == {"describe", "log", "shortlog", "tag", "archive"}

\* C13: once a stage has failed no later stage is invoked and the run
\* returns with an error; a failure of the editor comes before any git
\* command; git archive is run only after git tag succeeded.
C13_ShortCircuit ==
    /\ \A i \in 1..Len(calls) :
          calls[i].res = "fail" =>
              /\ i = Len(calls)
              /\ err # "nil"
              /\ pc \in {"return", "main", "failed"}
    /\ (err \in {"EDITOR not set", "read error"} \/ (HasCall("editor") /\ TheCall("editor").res = "fail"))
          => \A i \in 1..Len(calls) : calls[i].op \notin GitOps
    /\ HasCall("archive") => (HasCall("tag") /\ TheCall("tag").res = "ok")

\* C13 with the failures of git describe left aside
C13_ShortCircuitButDescribe ==
    /\ \A i \in 1..Len(calls) :
          (calls[i].res = "fail" /\ calls[i].op # "describe") =>
              /\ i = Len(calls)
              /\ err # "nil"
              /\ pc \in {"return", "main", "failed"}
    /\ (err \in {"EDITOR not set", "read error"} \/ (HasCall("editor") /\ TheCall("editor").res = "fail"))
          => \A i \in 1..Len(calls) : calls[i].op \notin GitOps
    /\ HasCall("archive") => (HasCall("tag") /\ TheCall("tag").res = "ok")

\* the position of each point of release and main in the fixed order
Rank(p) ==
    CASE p = "start" -> 1 [] p = "editor" -> 2 [] p = "scan" -> 3
      [] p = "describe" -> 4 [] p = "bump" -> 5 [] p = "log" -> 6
      [] p = "shortlog" -> 7 [] p = "assemble" -> 8 [] p = "tag" -> 9
      [] p = "archive" -> 10 [] p = "return" -> 11 [] p = "main" -> 12
      [] p = "done" -> 13 [] p = "failed" -> 13
      [] OTHER -> 0

CallRank(op) ==
    CASE op = "editor" -> 1 [] op = "describe" -> 2 [] op = "log" -> 3
      [] op = "shortlog" -> 4 [] op = "tag" -> 5 [] op = "archive" -> 6

\* C14: the stages of a run occur in the order editor, describe, bump and
\* qualifiers (the hash lookup only if build metadata was requested),
\* shortlog, assembly, tag, archive; none is run twice; a run that can go
\* no further is Done or Failed.
C14_StageOrder ==
    /\ [][Rank(pc') > Rank(pc)]_vars
    /\ [](\A i \in 1..Len(calls), j \in 1..Len(calls) :
             i < j => CallRank(calls[i].op) < CallRank(calls[j].op))
    /\ [](HasCall("log") => info)
    /\ [](pc \in {"done", "failed"} \/ ENABLED Next)

C14_Witness ==
    /\ pc = "done"
    /\ [i \in 1..Len(calls) |-> calls[i].op]
          = <<"editor", "describe", "log", "shortlog", "tag", "archive">>

\* C15: a tag that git tag created stays in the repository whatever
\* happens afterwards, and a run that ends Failed with its tag created is a
\* run whose last command, git archive, failed.
C15_NoRollback ==
    /\ (HasCall("tag") /\ TheCall("tag").res = "ok") => TheCall("tag").args[1] \in repoTags
    /\ (pc = "failed" /\ repoTags # {}) =>
          /\ calls[Len(calls)].op = "archive"
          /\ calls[Len(calls)].res = "fail"
          /\ err = calls[Len(calls)].stderr[1]

C15_Witness ==
    pc = "failed" /\ repoTags = {tag} /\ archives = {} /\ tag = Tag_v0_0_1

Count(s, c) == Cardinality({i \in 1..Len(s) : s[i] = c})

\* C16: every version string the pipeline renders has at most one - and at
\* most one + and the shape v<major>.<minor>.<patch>[-<prerelease>][+<build>].
C16_TextualForm ==
    tag # NoString =>
        /\ Count(tag, "-") <= 1
        /\ Count(tag, "+") <= 1
        /\ tag[1] = "v"
        /\ WellFormed(tag)

\* C17: a non-zero exit of git log, git shortlog, git tag or git archive is
\* returned as an error whose message is the first line of what the command
\* wrote to standard error.  (A failed git describe is the subject of C12.)
C17_FirstLineError ==
    \A i \in 1..Len(calls) :
        (calls[i].op \in GitOps \ {"describe"} /\ calls[i].res = "fail") =>
            err = calls[i].stderr[1]

\* C18: parseSemver returns a version or an error for every string; it
\* never indexes past the end of the string and never appends through the
\* nil accumulator.
C18_ParseTotal ==
    parsed.err # "panic"

Triple(sv) == <<sv.major, sv.minor, sv.patch>>
LexLess(a, b) ==
    \/ a[1] < b[1]
    \/ a[1] = b[1] /\ a[2] < b[2]
    \/ a[1] = b[1] /\ a[2] = b[2] /\ a[3] < b[3]

\* C19: the numeric triple of the resolved version is strictly greater, in
\* lexicographic order, than that of the previous version (the parse of the
\* tag git describe returned, the zero version when it returned none).
C19_StrictAdvance ==
    Resolved =>
        LET d == TheCall("describe")
            previous == IF d.res = "ok" THEN parseSemver(DropLast(d.out)).sem ELSE ZeroSem
        IN  LexLess(Triple(previous), Triple(sem))

C19_Witness ==
    /\ Resolved
    /\ next = major
    /\ TheCall("describe").out = <<"1", ".", "9", ".", "9", "\n">>
    /\ Triple(sem) = <<2, 0, 0>>

====
